---- MODULE Spec2Model ----
(***************************************************************************)
(* Model of fioctl/utils.py: exec_stream, the rate limited stream          *)
(* executor (a generator driving a ThreadPoolExecutor behind a token       *)
(* bucket limiter), together with the threads of its worker pool, the      *)
(* wall clock and the consumer of the generator; merge_streams, the merge  *)
(* of two streams; and retry, the recursive retry wrapper.  Each of the    *)
(* three has its own variables and its own specification (Spec and         *)
(* LiveSpec, MergeSpec, RetrySpec), in which the variables of the other    *)
(* two stay as they are.                                                   *)
(*                                                                         *)
(* Time is counted in ticks of 1/rate seconds, so time.sleep(1.0 / rate)   *)
(* lasts one tick and one second is `rate` ticks.  The bucket holds        *)
(* fractions of a token: `tokens` counts units of 1/rate token, so that    *)
(* the refill of one tick is a whole number of units.                      *)
(***************************************************************************)
EXTENDS Naturals, Integers, Sequences, FiniteSets, TLC

\* ---- bounds of the model ------------------------------------------------
MaxLen == 3        \* longest input iterable
MaxCapacity == 2   \* largest `capacity` argument
MaxRate == 2       \* largest `rate` argument
MaxKey == 2        \* largest sort key of a stream element
MaxMergeLen == 2   \* longest stream given to merge_streams
MaxFails == 6      \* most failures of the callable given to retry
MaxFrames == 7     \* most stack frames left to retry by the interpreter

\* ---- operations -----------------------------------------------------------
\* An operation is an opaque value; 0 stands for a falsy one (an empty
\* record, 0, ""), 1 for an ordinary one, 2 for one the caller's `sync`
\* predicate selects.
OpValues == {0, 1, 2}
FalsyOps == {0}
SyncOps == {2}

\* next(iterable, None) at the end of the input
None == -1

VARIABLES
  capacity,   \* argument capacity
  rate,       \* argument rate
  input,      \* what the iterable will produce
  pos,        \* number of values already pulled from the iterable
  operation,  \* local `operation`: index into input of the value pulled, or 0
  pc,         \* position of the generator
  exitKind,   \* how the with block is left: "none", "return", "raise", "close"
  pool,       \* "none" (not created), "open", "shutdown"
  tokens,     \* limiter bucket "stream", in units of 1/rate token
  phase,      \* wall clock modulo one second, in ticks
  crossed,    \* int(time.time()) has changed since `start` was taken
  slept,      \* the current time.sleep has lasted its duration
  futures,    \* local `futures`
  done,       \* futures of `done` the for loop has not visited yet
  pending,    \* local `pending`
  task,       \* state of the future of each submitted operation
  queue,      \* work queue of the ThreadPoolExecutor
  finishLog,  \* history: futures in the order their tasks finished
  yielded,    \* history: the pairs handed to the consumer, in order
  collected,  \* history: futures whose result() was called
  batch,      \* history: number of concurrent.futures.wait calls returned
  calls,      \* history: invocations of callable per input index
  submits,    \* history: executor.submit calls per input index
  inline,     \* history: runs of callable on the control thread per input index
  debited,    \* history: this loop iteration consumed a limiter token
  consumed,   \* history: number of successful limiter.consume calls
  raisedId,   \* history: input index whose exception left the generator, or 0
  elapsed,    \* history: ticks since `start` was taken, at most one second
  dozed       \* history: line 128 has slept since the last limiter.consume

\* merge_streams
VARIABLES
  seqA,       \* what `stream` produces
  seqB,       \* what `other_stream` produces
  iA,         \* number of elements fetched from `stream`
  iB,         \* number of elements fetched from `other_stream`
  head1,      \* local head1
  head2,      \* local head2
  mpc,        \* position of the generator
  out         \* history: the elements yielded, in order, with their origin

\* retry
VARIABLES
  failN,      \* the callable fails on its first failN invocations (-1: always)
  frames,     \* stack frames the interpreter has left when retry is called
  echoFrames, \* stack frames a call of click.echo needs
  kwargs,     \* local kwargs of the current call of retry
  callerKw,   \* the keyword arguments of the caller
  attempt,    \* local attempt of the current call of retry
  depth,      \* number of nested calls of retry on the stack
  rpc,        \* position in the current call of retry
  rcalls,     \* history: invocations of the callable
  rfails,     \* history: exceptions caught by the except clause
  argsOk,     \* history: every invocation received the caller's arguments
  notices,    \* history: number of notices echoed
  sleeps      \* history: the durations slept, in half seconds

execVars == << capacity, rate, input, pos, operation, pc, exitKind, pool,
               tokens, phase, crossed, slept, futures, done, pending, task,
               queue, finishLog, yielded, collected, batch, calls, submits,
               inline, debited, consumed, raisedId, elapsed, dozed >>
mergeVars == << seqA, seqB, iA, iB, head1, head2, mpc, out >>
retryVars == << failN, frames, echoFrames, kwargs, callerKw, attempt, depth,
                rpc, rcalls, rfails, argsOk, notices, sleeps >>

vars == << execVars, mergeVars, retryVars >>

Min(a, b) == IF a <= b THEN a ELSE b

Indices == 1..MaxLen

\* ---- token_bucket.Limiter(rate, capacity, storage) ------------------------
\* The library takes the refill rate first and the bucket size second;
\* exec_stream passes (capacity, rate, MemoryStorage()) positionally, so its
\* `capacity` is the refill rate and its `rate` is the bucket size.
LimiterRate == capacity
LimiterCapacity == rate

\* one token, in bucket units
Cost == 1 * rate
\* MemoryStorage.replenish over one tick: min(capacity, tokens + rate * dt)
Replenish(t) == Min(LimiterCapacity * rate, t + LimiterRate)
\* MemoryStorage.consume: enough tokens in the bucket
HasTokens_Strict(t) == t > Cost
HasTokens(t) == t >= Cost

\* ---- helpers of exec_stream -----------------------------------------------
\* `not operation`
Falsy_OnlyNone(v) == v = None
Falsy(v) == v = None \/ v \in FalsyOps

sync_Never(v) == FALSE
sync(v) == v \in SyncOps

\* next(iterable, None)
NextValue == IF pos < Len(input) THEN input[pos + 1] ELSE None

Finished(f) == task[f] \in {"ok", "exc"}

Running == {i \in Indices : task[i] = "running"}
Queued == {i \in Indices : task[i] = "queued"}

\* ThreadPoolExecutor(max_workers=capacity): a worker thread is free
WorkerFree_NoLimit == TRUE
WorkerFree == Cardinality(Running) < capacity

\* wait(futures, return_when=FIRST_COMPLETED) can return
AnyReady_Blocking(fs) == \E f \in fs : Finished(f)
AnyReady(fs) == fs = {} \/ \E f \in fs : Finished(f)
\* wait(futures) can return (ALL_COMPLETED)
AllReady_First(fs) == fs = {} \/ \E f \in fs : Finished(f)
AllReady(fs) == \A f \in fs : Finished(f)
\* the `done` set of a wait
DoneOf_Newest(fs) == {f \in fs : Finished(f) /\ \A g \in fs : Finished(g) => g <= f}
DoneOf(fs) == {f \in fs : Finished(f)}
\* the not_done set of a wait
NotDoneOf_Keep(fs) == fs
NotDoneOf(fs) == fs \ DoneOf(fs)

\* future.result() re-raises the exception of the task
ResultRaises_Never(f) == FALSE
ResultRaises(f) == task[f] = "exc"

\* executor.shutdown(wait=True) joins the workers, which first empty the queue
Joined_NoWait == TRUE
Joined == Running = {} /\ Queued = {}

\* where the loop goes on after limiter.consume: `if not limiter.consume(...)`
AfterConsume_AlwaysCollect(granted) == "wait_any"
AfterConsume(granted) == IF granted THEN "pull" ELSE "wait_any"

\* where the loop goes on after the yield of an inline pair (`continue`)
AfterSync_FallThrough == "submit"
AfterSync == "consume"

Pair(i, kind) == [id |-> i, op |-> input[i], kind |-> kind, batch |-> batch]

Terminal == {"done", "raised", "closed"}

RECURSIVE SeqsUpTo(_)
SeqsUpTo(n) == IF n = 0 THEN {<< >>}
               ELSE LET S == SeqsUpTo(n - 1)
                    IN S \cup {Append(s, v) : s \in {t \in S : Len(t) = n - 1}, v \in OpValues}

\* a stream element: its sort key and its truth value (bool(x)).  Records
\* such as {"id": k} are truthy; the number 0 and empty values are falsy and
\* sort first.
Elems == {[key |-> k, truthy |-> TRUE] : k \in 0..MaxKey}
           \cup {[key |-> 0, truthy |-> FALSE]}
\* next(stream, None) at the end of a stream
NoElem == [key |-> -1, truthy |-> FALSE]

\* merge_streams has not been called
MergeIdle ==
  /\ seqA = << >>
  /\ seqB = << >>
  /\ iA = 0
  /\ iB = 0
  /\ head1 = NoElem
  /\ head2 = NoElem
  /\ mpc = "idle"
  /\ out = << >>

\* retry has not been called
RetryIdle ==
  /\ failN = 0
  /\ frames = 0
  /\ echoFrames = 0
  /\ kwargs = {}
  /\ callerKw = {}
  /\ attempt = 0
  /\ depth = 0
  /\ rpc = "idle"
  /\ rcalls = 0
  /\ rfails = 0
  /\ argsOk = TRUE
  /\ notices = 0
  /\ sleeps = << >>

\* exec_stream is called with some arguments and has not run yet
ExecInit ==
  /\ elapsed = 0
  /\ dozed = FALSE
  /\ capacity \in 1..MaxCapacity
  /\ rate \in 1..MaxRate
  /\ input \in SeqsUpTo(MaxLen)
  /\ pos = 0
  /\ operation = 0
  /\ pc = "start"
  /\ exitKind = "none"
  /\ pool = "none"
  /\ tokens = LimiterCapacity * rate
  /\ phase = 0
  /\ crossed = FALSE
  /\ slept = FALSE
  /\ futures = {}
  /\ done = {}
  /\ pending = {}
  /\ task = [i \in Indices |-> "none"]
  /\ queue = << >>
  /\ finishLog = << >>
  /\ yielded = << >>
  /\ collected = {}
  /\ batch = 0
  /\ calls = [i \in Indices |-> 0]
  /\ submits = [i \in Indices |-> 0]
  /\ inline = [i \in Indices |-> 0]
  /\ debited = FALSE
  /\ consumed = 0
  /\ raisedId = 0

\* the arguments of the one call of exec_stream that stays unstarted while
\* merge_streams or retry is the function under study
ExecIdle ==
  /\ ExecInit
  /\ capacity = 1
  /\ rate = 1
  /\ input = << >>

Init ==
  /\ ExecInit
  /\ MergeIdle
  /\ RetryIdle

params == << capacity, rate, input >>
poolVars == << task, queue, finishLog, calls >>
clockVars == << tokens, phase, crossed, slept, elapsed, dozed >>
histVars == << yielded, collected, batch, submits, inline, debited, consumed, raisedId >>

\* ---- the consumer ---------------------------------------------------------
\* first next(): lines 112-118 run, the loop is entered
Start ==
  /\ pc = "start"
  /\ pc' = "consume"
  /\ pool' = "open"
  /\ UNCHANGED << params, mergeVars, retryVars, pos, operation, exitKind, clockVars, futures, done,
                  pending, poolVars, histVars >>

\* next() on the generator suspended at a yield
Resume ==
  /\ pc \in {"susp_any", "susp_all", "susp_sync"}
  /\ pc' = CASE pc = "susp_any" -> "yield_any"
             [] pc = "susp_all" -> "yield_all"
             [] pc = "susp_sync" -> AfterSync
  /\ UNCHANGED << params, mergeVars, retryVars, pos, operation, exitKind, pool, clockVars, futures,
                  done, pending, poolVars, histVars >>

\* close() / garbage collection: GeneratorExit is thrown at the yield
Close ==
  /\ \/ /\ pc = "start"
        /\ pc' = "closed"
        /\ exitKind' = "close"
     \/ /\ pc \in {"susp_any", "susp_all", "susp_sync"}
        /\ pc' = "shutdown"
        /\ exitKind' = "close"
  /\ UNCHANGED << params, mergeVars, retryVars, pos, operation, pool, clockVars, futures, done,
                  pending, poolVars, histVars >>

\* ---- the control loop of exec_stream --------------------------------------
\* line 120-121: limiter.consume("stream", 1); on refusal `start` is taken
Consume ==
  /\ pc = "consume"
  /\ IF HasTokens(tokens)
       THEN /\ tokens' = tokens - Cost
            /\ debited' = TRUE
            /\ consumed' = consumed + 1
            /\ pc' = AfterConsume(TRUE)
            /\ crossed' = crossed
            /\ elapsed' = elapsed
       ELSE /\ tokens' = tokens
            /\ debited' = FALSE
            /\ consumed' = consumed
            /\ pc' = AfterConsume(FALSE)
            /\ crossed' = FALSE
            /\ elapsed' = 0
  /\ dozed' = FALSE
  /\ UNCHANGED << params, mergeVars, retryVars, pos, operation, exitKind, pool, phase, slept,
                  futures, done, pending, poolVars, yielded, collected, batch,
                  submits, inline, raisedId >>

\* line 122: wait(futures, return_when=FIRST_COMPLETED) returns
WaitAny ==
  /\ pc = "wait_any"
  /\ AnyReady(futures)
  /\ done' = DoneOf(futures)
  /\ pending' = NotDoneOf(futures)
  /\ batch' = batch + 1
  /\ pc' = "yield_any"
  /\ UNCHANGED << params, mergeVars, retryVars, pos, operation, exitKind, pool, clockVars, futures,
                  poolVars, yielded, collected, submits, inline, debited,
                  consumed, raisedId >>

\* `for future in done: yield future.result()`: one turn of the for loop.
\* The order in which a set is iterated is not defined: any member is next.
YieldFrom(suspendAt) ==
  /\ done # {}
  /\ \E f \in done :
       /\ collected' = collected \cup {f}
       /\ IF ResultRaises(f)
            THEN /\ pc' = "shutdown"
                 /\ exitKind' = "raise"
                 /\ raisedId' = f
                 /\ UNCHANGED << yielded, done >>
            ELSE /\ yielded' = Append(yielded, Pair(f, "pool"))
                 /\ done' = done \ {f}
                 /\ pc' = suspendAt
                 /\ UNCHANGED << exitKind, raisedId >>
  /\ UNCHANGED << params, mergeVars, retryVars, pos, operation, pool, clockVars, futures, pending,
                  poolVars, batch, submits, inline, debited, consumed >>

\* line 123-124
YieldAny ==
  /\ pc = "yield_any"
  /\ YieldFrom("susp_any")

\* line 126-127: futures = pending, then the elapsed whole seconds are tested
EndWaitAny ==
  /\ pc = "yield_any"
  /\ done = {}
  /\ futures' = pending
  /\ pending' = {}
  /\ pc' = IF crossed THEN "pull" ELSE "sleep"
  /\ crossed' = FALSE
  /\ slept' = FALSE
  /\ elapsed' = 0
  /\ UNCHANGED << params, mergeVars, retryVars, pos, operation, exitKind, pool, tokens, phase, done, dozed,
                  poolVars, histVars >>

\* line 128: time.sleep(1.0 / rate) returns
Sleep ==
  /\ pc = "sleep"
  /\ slept
  /\ pc' = "pull"
  /\ slept' = FALSE
  /\ dozed' = TRUE
  /\ UNCHANGED << params, mergeVars, retryVars, pos, operation, exitKind, pool, tokens, phase,
                  crossed, elapsed, futures, done, pending, poolVars, histVars >>

\* line 130-138: operation = next(iterable, None) and the two tests on it
Pull ==
  /\ pc = "pull"
  /\ LET v == NextValue IN
       /\ pos' = IF v = None THEN pos ELSE pos + 1
       /\ operation' = IF v = None THEN 0 ELSE pos + 1
       /\ pc' = IF Falsy(v) THEN "wait_all"
                ELSE IF sync(v) THEN "sync_exec" ELSE "submit"
  /\ UNCHANGED << params, mergeVars, retryVars, exitKind, pool, clockVars, futures, done, pending,
                  poolVars, histVars >>

\* line 139: execute(operation) runs callable on the control thread; its
\* pair is yielded, or its exception leaves the generator
SyncExec ==
  /\ pc = "sync_exec"
  /\ calls' = [calls EXCEPT ![operation] = @ + 1]
  /\ inline' = [inline EXCEPT ![operation] = @ + 1]
  /\ \/ /\ yielded' = Append(yielded, Pair(operation, "sync"))
        /\ pc' = "susp_sync"
        /\ UNCHANGED << exitKind, raisedId >>
     \/ /\ pc' = "shutdown"
        /\ exitKind' = "raise"
        /\ raisedId' = operation
        /\ UNCHANGED yielded
  /\ UNCHANGED << params, mergeVars, retryVars, pos, operation, pool, clockVars, futures, done,
                  pending, task, queue, finishLog, collected, batch, submits,
                  debited, consumed >>

\* line 142: futures.add(executor.submit(execute, operation))
Submit ==
  /\ pc = "submit"
  /\ futures' = futures \cup {operation}
  /\ task' = [task EXCEPT ![operation] = "queued"]
  /\ queue' = Append(queue, operation)
  /\ submits' = [submits EXCEPT ![operation] = @ + 1]
  /\ pc' = "consume"
  /\ UNCHANGED << params, mergeVars, retryVars, pos, operation, exitKind, pool, clockVars, done,
                  pending, finishLog, calls, yielded, collected, batch, inline,
                  debited, consumed, raisedId >>

\* line 133: wait(futures) returns
WaitAll ==
  /\ pc = "wait_all"
  /\ AllReady(futures)
  /\ done' = DoneOf(futures)
  /\ batch' = batch + 1
  /\ pc' = "yield_all"
  /\ UNCHANGED << params, mergeVars, retryVars, pos, operation, exitKind, pool, clockVars, futures,
                  pending, poolVars, yielded, collected, submits, inline,
                  debited, consumed, raisedId >>

\* line 134-135
YieldAll ==
  /\ pc = "yield_all"
  /\ YieldFrom("susp_all")

\* line 136: break, the with block is left
Break ==
  /\ pc = "yield_all"
  /\ done = {}
  /\ pc' = "shutdown"
  /\ exitKind' = "return"
  /\ UNCHANGED << params, mergeVars, retryVars, pos, operation, pool, clockVars, futures, done,
                  pending, poolVars, histVars >>

\* line 118: ThreadPoolExecutor.__exit__ is executor.shutdown(wait=True);
\* after it the generator is finished the way the block was left
Shutdown ==
  /\ pc = "shutdown"
  /\ Joined
  /\ pool' = "shutdown"
  /\ pc' = CASE exitKind = "return" -> "done"
             [] exitKind = "raise" -> "raised"
             [] exitKind = "close" -> "closed"
  /\ UNCHANGED << params, mergeVars, retryVars, pos, operation, exitKind, clockVars, futures, done,
                  pending, poolVars, histVars >>

\* ---- the worker threads of the pool ---------------------------------------
\* a free worker takes the oldest work item and calls execute(operation)
WorkerStart ==
  /\ queue # << >>
  /\ WorkerFree
  /\ task' = [task EXCEPT ![Head(queue)] = "running"]
  /\ calls' = [calls EXCEPT ![Head(queue)] = @ + 1]
  /\ queue' = Tail(queue)
  /\ UNCHANGED << params, mergeVars, retryVars, pos, operation, pc, exitKind, pool, clockVars,
                  futures, done, pending, finishLog, histVars >>

\* line 116: callable(operation) returns or raises in the worker
WorkerFinish ==
  /\ \E f \in Running, outcome \in {"ok", "exc"} :
       /\ task' = [task EXCEPT ![f] = outcome]
       /\ finishLog' = Append(finishLog, f)
  /\ UNCHANGED << params, mergeVars, retryVars, pos, operation, pc, exitKind, pool, clockVars,
                  futures, done, pending, queue, calls, histVars >>

\* ---- the clock -------------------------------------------------------------
WaitRegion == {"wait_any", "yield_any", "susp_any"}

\* 1/rate seconds pass: the bucket is refilled for that time (replenish is
\* computed from the elapsed time at the next consume, which amounts to the
\* same), a time.sleep in progress has lasted long enough, and when the
\* clock passes a whole second int(time.time()) differs from `start`.
Tick ==
  /\ pc \notin Terminal
  /\ phase' = (phase + 1) % rate
  /\ tokens' = Replenish(tokens)
  /\ crossed' = IF pc \in WaitRegion THEN (crossed \/ phase' = 0) ELSE crossed
  /\ slept' = IF pc = "sleep" THEN TRUE ELSE slept
  /\ elapsed' = IF pc \in WaitRegion THEN Min(rate, elapsed + 1) ELSE elapsed
  /\ UNCHANGED << params, mergeVars, retryVars, pos, operation, pc, exitKind, pool, futures, done,
                  pending, poolVars, histVars, dozed >>

Next ==
  \/ Start
  \/ Resume
  \/ Close
  \/ Consume
  \/ WaitAny
  \/ YieldAny
  \/ EndWaitAny
  \/ Sleep
  \/ Pull
  \/ SyncExec
  \/ Submit
  \/ WaitAll
  \/ YieldAll
  \/ Break
  \/ Shutdown
  \/ WorkerStart
  \/ WorkerFinish
  \/ Tick

Spec == Init /\ [][Next]_vars

\* the steps of the control thread inside the generator
Generator ==
  \/ Consume
  \/ WaitAny
  \/ YieldAny
  \/ EndWaitAny
  \/ Sleep
  \/ Pull
  \/ SyncExec
  \/ Submit
  \/ WaitAll
  \/ YieldAll
  \/ Break
  \/ Shutdown

\* The control thread and the worker threads are scheduled, every call of
\* callable ends, time passes, and the consumer goes on asking for pairs.
LiveSpec ==
  /\ Init
  /\ [][Next]_vars
  /\ WF_vars(Generator)
  /\ WF_vars(Start \/ Resume)
  /\ WF_vars(WorkerStart)
  /\ WF_vars(WorkerFinish)
  /\ WF_vars(Tick)

\* ---- merge_streams ---------------------------------------------------------
\* the comparison argument; its default is lambda x, y: x["id"] <= y["id"]
comparison_Strict(x, y) == x.key < y.key
comparison(x, y) == x.key <= y.key

\* bool(x) as `while head1 and head2`, `if head1` and `if head2` take it
Truthy(x) == x.truthy

\* fetch = lambda stream: next(stream, None)
Fetched(seq, i) == IF i < Len(seq) THEN seq[i + 1] ELSE NoElem
Advance(seq, i) == IF i < Len(seq) THEN i + 1 ELSE i

\* one yielded element, with the stream and the position it came from
Emit(x, src, idx) == [elem |-> x, src |-> src, idx |-> idx]

RECURSIVE ElemSeqs(_)
ElemSeqs(n) ==
  IF n = 0 THEN {<< >>}
  ELSE LET shorter == ElemSeqs(n - 1)
       IN shorter \cup {Append(q, e) : q \in {r \in shorter : Len(r) = n - 1},
                                       e \in Elems}

MergeInit ==
  /\ ExecIdle
  /\ RetryIdle
  /\ seqA \in ElemSeqs(MaxMergeLen)
  /\ seqB \in ElemSeqs(MaxMergeLen)
  /\ iA = 0
  /\ iB = 0
  /\ head1 = NoElem
  /\ head2 = NoElem
  /\ mpc = "start"
  /\ out = << >>

\* head1, head2 = fetch(stream), fetch(other_stream)
MStart ==
  /\ mpc = "start"
  /\ head1' = Fetched(seqA, iA)
  /\ iA' = Advance(seqA, iA)
  /\ head2' = Fetched(seqB, iB)
  /\ iB' = Advance(seqB, iB)
  /\ mpc' = "loop"
  /\ UNCHANGED << execVars, retryVars, seqA, seqB, out >>

\* while head1 and head2: comparison true: yield head1; head1 = fetch(stream)
MTakeFirst ==
  /\ mpc = "loop"
  /\ Truthy(head1) /\ Truthy(head2)
  /\ comparison(head1, head2)
  /\ out' = Append(out, Emit(head1, "A", iA))
  /\ head1' = Fetched(seqA, iA)
  /\ iA' = Advance(seqA, iA)
  /\ UNCHANGED << execVars, retryVars, seqA, seqB, iB, head2, mpc >>

\* while head1 and head2: else: yield head2; head2 = fetch(other_stream)
MTakeSecond ==
  /\ mpc = "loop"
  /\ Truthy(head1) /\ Truthy(head2)
  /\ ~comparison(head1, head2)
  /\ out' = Append(out, Emit(head2, "B", iB))
  /\ head2' = Fetched(seqB, iB)
  /\ iB' = Advance(seqB, iB)
  /\ UNCHANGED << execVars, retryVars, seqA, seqB, iA, head1, mpc >>

\* the while condition is false: if head1: yield head1
MTail1 ==
  /\ mpc = "loop"
  /\ ~(Truthy(head1) /\ Truthy(head2))
  /\ IF Truthy(head1)
       THEN /\ out' = Append(out, Emit(head1, "A", iA))
            /\ mpc' = "restA"
       ELSE /\ out' = out
            /\ mpc' = "tail2"
  /\ UNCHANGED << execVars, retryVars, seqA, seqB, iA, iB, head1, head2 >>

\* for head1 in stream: yield head1
MRestA ==
  /\ mpc = "restA"
  /\ IF iA < Len(seqA)
       THEN /\ head1' = seqA[iA + 1]
            /\ iA' = iA + 1
            /\ out' = Append(out, Emit(seqA[iA + 1], "A", iA + 1))
            /\ mpc' = mpc
       ELSE /\ mpc' = "tail2"
            /\ UNCHANGED << head1, iA, out >>
  /\ UNCHANGED << execVars, retryVars, seqA, seqB, iB, head2 >>

\* if head2: yield head2
MTail2 ==
  /\ mpc = "tail2"
  /\ IF Truthy(head2)
       THEN /\ out' = Append(out, Emit(head2, "B", iB))
            /\ mpc' = "restB"
       ELSE /\ out' = out
            /\ mpc' = "done"
  /\ UNCHANGED << execVars, retryVars, seqA, seqB, iA, iB, head1, head2 >>

\* for head2 in other_stream: yield head2; then the generator returns
MRestB ==
  /\ mpc = "restB"
  /\ IF iB < Len(seqB)
       THEN /\ head2' = seqB[iB + 1]
            /\ iB' = iB + 1
            /\ out' = Append(out, Emit(seqB[iB + 1], "B", iB + 1))
            /\ mpc' = mpc
       ELSE /\ mpc' = "done"
            /\ UNCHANGED << head2, iB, out >>
  /\ UNCHANGED << execVars, retryVars, seqA, seqB, iA, head1 >>

MergeNext ==
  \/ MStart
  \/ MTakeFirst
  \/ MTakeSecond
  \/ MTail1
  \/ MRestA
  \/ MTail2
  \/ MRestB

MergeSpec == MergeInit /\ [][MergeNext]_vars

\* ---- retry ------------------------------------------------------------------
\* time is counted in half seconds: min(.5 * math.pow(2, attempt), 4)
BackoffCap == 8
Backoff_NoCap(a) == 2 ^ a
Backoff(a) == Min(2 ^ a, BackoffCap)

\* the callable raises on every invocation
Forever == -1
\* the invocation after n earlier ones raises
Fails(n) == failN = Forever \/ n < failN

\* keyword arguments: a set of <<name, value>>
CallerKwargs == {{}, {<<"x", 2>>}}
\* what click.echo may need of the stack
EchoDepths == 1..2

\* kwargs.pop('attempt', 0): the value, and what is left
PopAttempt(kw) ==
  IF \E p \in kw : p[1] = "attempt"
    THEN (CHOOSE p \in kw : p[1] = "attempt")[2]
    ELSE 0
WithoutAttempt(kw) == {p \in kw : p[1] # "attempt"}
\* kwargs['attempt'] = v
SetAttempt(kw, v) == WithoutAttempt(kw) \cup {<<"attempt", v>>}

\* a call n frames deep fits the stack; otherwise it raises RecursionError
Fits(n) == depth + n <= frames

RetryInit ==
  /\ ExecIdle
  /\ MergeIdle
  /\ failN \in (0..MaxFails) \cup {Forever}
  /\ frames \in 2..MaxFrames
  /\ echoFrames \in EchoDepths
  /\ callerKw \in CallerKwargs
  /\ kwargs = callerKw
  /\ attempt = 0
  /\ depth = 0
  /\ rpc = "start"
  /\ rcalls = 0
  /\ rfails = 0
  /\ argsOk = TRUE
  /\ notices = 0
  /\ sleeps = << >>

retryParams == << failN, frames, echoFrames, callerKw >>

\* the caller calls retry(callable, *args, **kwargs); attempt = kwargs.pop(...)
RStart ==
  /\ rpc = "start"
  /\ attempt' = PopAttempt(kwargs)
  /\ kwargs' = WithoutAttempt(kwargs)
  /\ depth' = 1
  /\ rpc' = "call"
  /\ UNCHANGED << execVars, mergeVars, retryParams, rcalls, rfails, argsOk,
                  notices, sleeps >>

\* callable(*args, **kwargs) returns: retry returns, and so do its callers
RCallReturns ==
  /\ rpc = "call"
  /\ Fits(1)
  /\ ~Fails(rcalls)
  /\ rcalls' = rcalls + 1
  /\ argsOk' = (argsOk /\ kwargs = callerKw)
  /\ rpc' = "returned"
  /\ UNCHANGED << execVars, mergeVars, retryParams, kwargs, attempt, depth,
                  rfails, notices, sleeps >>

\* callable(*args, **kwargs) raises, or calling it overflows the stack: the
\* bare except catches either
RCallRaises ==
  /\ rpc = "call"
  /\ ~Fits(1) \/ Fails(rcalls)
  /\ rcalls' = IF Fits(1) THEN rcalls + 1 ELSE rcalls
  /\ argsOk' = IF Fits(1) THEN (argsOk /\ kwargs = callerKw) ELSE argsOk
  /\ rfails' = rfails + 1
  /\ rpc' = "echo"
  /\ UNCHANGED << execVars, mergeVars, retryParams, kwargs, attempt, depth,
                  notices, sleeps >>

\* click.echo(f"Retrying ..."): an exception raised in the except clause
\* leaves retry and every caller of it
REcho ==
  /\ rpc = "echo"
  /\ IF Fits(echoFrames)
       THEN /\ notices' = notices + 1
            /\ rpc' = "sleep"
       ELSE /\ notices' = notices
            /\ rpc' = "raised"
  /\ UNCHANGED << execVars, mergeVars, retryParams, kwargs, attempt, depth,
                  rcalls, rfails, argsOk, sleeps >>

\* time.sleep(min(.5 * math.pow(2, attempt), 4))
RSleep ==
  /\ rpc = "sleep"
  /\ sleeps' = Append(sleeps, Backoff(attempt))
  /\ rpc' = "recurse"
  /\ UNCHANGED << execVars, mergeVars, retryParams, kwargs, attempt, depth,
                  rcalls, rfails, argsOk, notices >>

\* kwargs['attempt'] = attempt + 1; retry(callable, *args, **kwargs), whose
\* first statement pops the attempt again
RRecurse ==
  /\ rpc = "recurse"
  /\ IF Fits(1)
       THEN /\ attempt' = PopAttempt(SetAttempt(kwargs, attempt + 1))
            /\ kwargs' = WithoutAttempt(SetAttempt(kwargs, attempt + 1))
            /\ depth' = depth + 1
            /\ rpc' = "call"
       ELSE /\ kwargs' = SetAttempt(kwargs, attempt + 1)
            /\ rpc' = "raised"
            /\ UNCHANGED << attempt, depth >>
  /\ UNCHANGED << execVars, mergeVars, retryParams, rcalls, rfails, argsOk,
                  notices, sleeps >>

RetryNext ==
  \/ RStart
  \/ RCallReturns
  \/ RCallRaises
  \/ REcho
  \/ RSleep
  \/ RRecurse

RetrySpec == RetryInit /\ [][RetryNext]_vars

\* ---- definitions used by the properties -----------------------------------
RECURSIVE SumTo(_, _)
SumTo(fn, n) == IF n = 0 THEN 0 ELSE fn[n] + SumTo(fn, n - 1)

Count(seq, v) == Cardinality({k \in 1..Len(seq) : seq[k] = v})

YieldedOps == [k \in 1..Len(yielded) |-> yielded[k].op]
YieldedIds == {yielded[k].id : k \in 1..Len(yielded)}
PooledYields == {k \in 1..Len(yielded) : yielded[k].kind = "pool"}

\* tasks submitted whose result the control loop has not collected
Uncollected == futures \ collected

\* the operation in `operation` was pulled and is not dealt with yet
InHand(i) == operation = i /\ pc \in {"sync_exec", "submit"}

\* no invocation of callable has raised
NoRaise == exitKind # "raise" /\ \A i \in Indices : task[i] # "exc"

\* number of input values before the first falsy one
RECURSIVE TruthyPrefix(_)
TruthyPrefix(n) == IF n >= Len(input) \/ input[n + 1] \in FalsyOps THEN n
                   ELSE TruthyPrefix(n + 1)
PrefixLen == TruthyPrefix(0)

\* place of future f in the order of completion (0: not finished)
FinishIdx(f) == IF \E k \in 1..Len(finishLog) : finishLog[k] = f
                  THEN CHOOSE k \in 1..Len(finishLog) : finishLog[k] = f
                  ELSE 0

TypeOK ==
  /\ pos \in 0..MaxLen
  /\ tokens \in 0..(LimiterCapacity * rate)
  /\ futures \subseteq Indices

\* ---- C1 -------------------------------------------------------------------
\* C1 as stated: at every instant the number of submitted tasks whose result
\* has not been collected is at most capacity.
C1_PendingAtMostCapacity == Cardinality(Uncollected) <= capacity

\* C1 amended: at every instant at most `capacity` tasks are being executed
\* by the workers of the pool; the uncollected futures are not so bounded.
C1_RunningAtMostCapacity == Cardinality(Running) <= capacity

C1_Witness == Cardinality(Running) = capacity /\ Cardinality(Uncollected) > capacity

\* ---- C2 -------------------------------------------------------------------
\* C2: every submission to the pool happens in a loop iteration that debited
\* a limiter token, so submissions never outnumber the tokens consumed.
C2_SubmitNeedsToken ==
  /\ pc = "submit" => debited
  /\ SumTo(submits, MaxLen) <= consumed

\* ---- C3 -------------------------------------------------------------------
\* C3 as stated: every value pulled from the input is executed inline or
\* submitted to the pool, exactly once.
C3_EveryPulledValueOnce ==
  \A i \in 1..pos : ~InHand(i) => inline[i] + submits[i] = 1

\* C3 amended: every truthy value pulled is executed inline (when sync holds
\* of it) or else submitted to the pool, exactly once; a falsy value that is
\* pulled is neither executed nor submitted, and nothing that was not pulled is.
C3_EveryTruthyValueOnce ==
  /\ \A i \in 1..pos :
       /\ inline[i] + submits[i] <= 1
       /\ (~InHand(i) /\ input[i] \notin FalsyOps) =>
            /\ inline[i] + submits[i] = 1
            /\ inline[i] = 1 <=> input[i] \in SyncOps
       /\ input[i] \in FalsyOps => inline[i] + submits[i] = 0
  /\ \A i \in Indices : i > pos => inline[i] + submits[i] = 0

C3_Witness ==
  /\ pc = "consume"
  /\ \E i, j \in 1..pos : inline[i] = 1 /\ submits[j] = 1

\* ---- C4 -------------------------------------------------------------------
\* C4 as stated: when callable never raises and the consumer reads to the
\* end, the yielded operations are, as a multiset, the input operations.
C4_YieldsWholeInput ==
  (pc = "done" /\ NoRaise) =>
     /\ Len(yielded) = Len(input)
     /\ \A v \in OpValues : Count(YieldedOps, v) = Count(input, v)

\* C4 amended: ... the yielded operations are, as a multiset, the input
\* operations that precede the first falsy value of the input, one pair each.
C4_YieldsTruthyPrefix ==
  (pc = "done" /\ NoRaise) =>
     /\ Len(yielded) = PrefixLen
     /\ YieldedIds = 1..PrefixLen
     /\ \A v \in OpValues :
          Count(YieldedOps, v) = Count(SubSeq(input, 1, PrefixLen), v)

C4_Witness ==
  /\ pc = "done"
  /\ NoRaise
  /\ Len(yielded) = MaxLen
  /\ batch >= 2
  /\ \E j, k \in PooledYields : j < k /\ yielded[k].id < yielded[j].id

\* ---- C5 -------------------------------------------------------------------
\* C5 as stated: whenever pooled task A finishes before pooled task B, the
\* pair of A is yielded before the pair of B.
C5_StrictCompletionOrder ==
  \A k \in PooledYields : \A a \in Indices :
     (FinishIdx(a) # 0 /\ FinishIdx(a) < FinishIdx(yielded[k].id)) =>
        \E j \in PooledYields : j < k /\ yielded[j].id = a

\* C5 amended: whenever pooled task A finishes before pooled task B and the
\* pair of B is yielded, the pair of A was yielded before it, or A is
\* collected by the same wait call as B (the futures one wait call returns as
\* done are yielded in the unspecified iteration order of that set).
C5_CompletionOrderAcrossWaits ==
  \A k \in PooledYields : \A a \in Indices :
     (FinishIdx(a) # 0 /\ FinishIdx(a) < FinishIdx(yielded[k].id)) =>
        \/ \E j \in PooledYields :
              /\ yielded[j].id = a
              /\ j < k \/ yielded[j].batch = yielded[k].batch
        \/ a \in done /\ batch = yielded[k].batch

C5_Witness ==
  \E j, k \in PooledYields :
     /\ j < k
     /\ yielded[j].batch < yielded[k].batch
     /\ FinishIdx(yielded[j].id) < FinishIdx(yielded[k].id)
     /\ yielded[k].id < yielded[j].id

\* ---- C6 -------------------------------------------------------------------
\* C6 as stated: an operation of which sync holds is run on the control
\* thread, is never submitted, has no limiter token debited for it, and its
\* pair is yielded before anything further is pulled.
C6_InlineBypassesLimiter ==
  \A i \in 1..pos : (input[i] \in SyncOps) =>
     /\ submits[i] = 0
     /\ task[i] = "none"
     /\ (InHand(i) /\ pc = "sync_exec") => ~debited
     /\ i < pos => \E k \in 1..Len(yielded) : yielded[k].id = i

\* C6 amended: an operation of which sync holds is run on the control thread,
\* is never submitted to the pool, and its pair is yielded before anything
\* further is pulled; the loop iteration that pulls it has gone through
\* limiter.consume like any other (a token is debited when one is available).
C6_InlineBypassesPool ==
  \A i \in 1..pos : (input[i] \in SyncOps) =>
     /\ submits[i] = 0
     /\ task[i] = "none"
     /\ calls[i] = inline[i]
     /\ InHand(i) \/ inline[i] = 1
     /\ i < pos => \E k \in 1..Len(yielded) :
                      yielded[k].id = i /\ yielded[k].kind = "sync"

C6_Witness ==
  /\ pc = "pull"
  /\ pos >= 1
  /\ input[pos] \in SyncOps
  /\ consumed >= 2
  /\ \E k \in 1..Len(yielded) : yielded[k].id = pos /\ yielded[k].kind = "sync"

\* ---- C7 -------------------------------------------------------------------
\* C7: an exception of a pooled task does not leave the generator when the
\* task is submitted or when it fails in its worker, but when the control
\* loop calls result() on its future; the pair of a failed task is never
\* yielded, and once the exception has left, nothing more is yielded.
C7_PooledExceptionAtCollection ==
  [][ /\ pc = "submit" => exitKind' = exitKind
      /\ (exitKind # "raise" /\ exitKind' = "raise" /\ inline'[raisedId'] = 0) =>
            /\ pc \in {"yield_any", "yield_all"}
            /\ raisedId' \in done
            /\ task[raisedId'] = "exc"
      /\ (\E f \in Indices : task[f] # "exc" /\ task'[f] = "exc") =>
            (exitKind' = exitKind /\ pc' = pc)
      /\ \A k \in 1..Len(yielded') :
            yielded'[k].kind = "pool" => task'[yielded'[k].id] = "ok"
      /\ exitKind = "raise" => yielded' = yielded
    ]_vars

C7_Witness ==
  /\ pc = "raised"
  /\ raisedId # 0
  /\ task[raisedId] = "exc"
  /\ raisedId \in collected
  /\ Len(yielded) >= 1
  /\ \E f \in futures : f \notin collected

\* ---- C8 -------------------------------------------------------------------
\* C8: once the generator has terminated (input exhausted, exception, or
\* closed by the consumer) the pool it created is shut down and no task is
\* running or waiting in it.
C8_PoolReleasedAtExit ==
  pc \in Terminal =>
     /\ Running = {}
     /\ Queued = {}
     /\ pool = "shutdown" \/ (pool = "none" /\ exitKind = "close" /\ pos = 0)

C8_Witness ==
  /\ pc = "closed"
  /\ pool = "shutdown"
  /\ \E f \in Uncollected : Finished(f)
  /\ \E f \in Uncollected : f \notin pending /\ f \notin done

\* ---- C9 -------------------------------------------------------------------
\* C9: under fairness the generator reaches a terminal state for every finite
\* input, and it ends by exhaustion only after the final wait has waited for
\* every remaining future and the pair of every submitted task was yielded.
C9_DrainsThenTerminates ==
  /\ <>(pc \in Terminal)
  /\ [](pc \in {"yield_all", "susp_all"} => \A f \in futures : Finished(f))
  /\ [](pc = "done" =>
          /\ done = {}
          /\ futures \subseteq collected
          /\ \A i \in Indices : submits[i] > 0 => i \in YieldedIds)

C9_Witness ==
  /\ pc = "done"
  /\ pos = Len(input)
  /\ Cardinality({k \in PooledYields : yielded[k].batch = batch}) >= 2

\* ---- C10 ------------------------------------------------------------------
\* C10: once the value pulled is falsy (None at the end of the input, or a
\* falsy operation) nothing further is pulled, the loop waits for all the
\* futures, yields their pairs and ends; what follows a falsy value in the
\* input is never executed or submitted.
DrainRegion == {"wait_all", "yield_all", "susp_all"}

C10_FalsyValueEndsStream ==
  /\ pos <= PrefixLen + 1
  /\ \A i \in Indices : i > PrefixLen =>
        calls[i] = 0 /\ inline[i] = 0 /\ submits[i] = 0 /\ task[i] = "none"
  /\ pos = PrefixLen + 1 => pc \in DrainRegion \cup {"shutdown"} \cup Terminal
  /\ pc \in DrainRegion => (pos = Len(input) \/ pos = PrefixLen + 1)
  /\ pc \in {"yield_all", "susp_all"} => \A f \in futures : Finished(f)
  /\ pc = "done" => \A i \in Indices : submits[i] > 0 => i \in YieldedIds

C10_Witness ==
  /\ pc = "done"
  /\ pos = PrefixLen + 1
  /\ pos < Len(input)
  /\ \E k \in PooledYields : yielded[k].batch = batch

\* ---- merge_streams: properties ----------------------------------------------
\* the sequence is sorted under the comparison
IsSorted(q) ==
  \A i \in 1..(Len(q) - 1) : q[i].key <= q[i + 1].key

OutElems == [i \in 1..Len(out) |-> out[i].elem]

\* the positions of out that came from the stream src, as emitted
FromSrc(src) == {i \in 1..Len(out) : out[i].src = src}

\* the element at position idx of the stream src is emitted exactly n times
EmittedTimes(src, idx) ==
  Cardinality({i \in FromSrc(src) : out[i].idx = idx})

EveryElementOnce ==
  /\ \A idx \in 1..Len(seqA) : EmittedTimes("A", idx) = 1
  /\ \A idx \in 1..Len(seqB) : EmittedTimes("B", idx) = 1
  /\ Len(out) = Len(seqA) + Len(seqB)
  /\ \A i \in 1..Len(out) :
       out[i].elem = (IF out[i].src = "A" THEN seqA ELSE seqB)[out[i].idx]

\* the elements of one stream come out in the order they had in it
KeepsRelativeOrder ==
  \A i, j \in 1..Len(out) :
    (i < j /\ out[i].src = out[j].src) => out[i].idx < out[j].idx

\* C12: when merge_streams has returned, every element of both streams has
\* been yielded exactly once, whatever the elements are.
C12_EveryElementOnce ==
  mpc = "done" => EveryElementOnce

\* C11: for streams that are each sorted under the comparison, what
\* merge_streams has yielded when it returns is sorted, holds every element of
\* both streams once, and keeps the order within each stream.
C11_SortedInterleaving ==
  (mpc = "done" /\ IsSorted(seqA) /\ IsSorted(seqB))
    => (IsSorted(OutElems) /\ EveryElementOnce /\ KeepsRelativeOrder)

C15_NeverPropagates ==
  rpc # "raised"

\* C14: for a callable that fails on its first n invocations and then
\* succeeds, retry ends by returning, after exactly n + 1 invocations, each
\* with the arguments of the caller.
C14_ExactlyNPlusOneCalls ==
  (failN # Forever /\ rpc \in {"returned", "raised"})
    => (rpc = "returned" /\ rcalls = failN + 1 /\ argsOk)

\* C18: the attempt counter is 0 at the first invocation and one more after
\* every failure; the sleep after the k-th failure (k = 0, 1, ...) lasts
\* min(0.5 * 2^k, 4) seconds; after a failure the notice comes first, then the
\* sleep, and only then the next invocation.
C18_BackoffSchedule ==
  /\ \A k \in 1..Len(sleeps) :
       sleeps[k] = (IF 2 ^ (k - 1) < 8 THEN 2 ^ (k - 1) ELSE 8)
  /\ rpc = "call" =>
       attempt = rfails /\ notices = rfails /\ Len(sleeps) = rfails
                        /\ rcalls = rfails
  /\ rpc = "echo" =>
       attempt = rfails - 1 /\ notices = rfails - 1 /\ Len(sleeps) = rfails - 1
  /\ rpc = "sleep" =>
       attempt = rfails - 1 /\ notices = rfails /\ Len(sleeps) = rfails - 1
  /\ rpc = "recurse" =>
       attempt = rfails - 1 /\ notices = rfails /\ Len(sleeps) = rfails
  /\ rcalls <= Len(sleeps) + 1

\* five failures have been slept after: 0.5, 1, 2, 4 and 4 seconds
C18_Witness ==
  /\ Len(sleeps) >= 5
  /\ sleeps[1] = 1
  /\ sleeps[4] = 8
  /\ sleeps[5] = 8
  /\ rpc = "call"

\* ---- exec_stream: the limiter and the token-unavailable branch ---------------
\* C16: when limiter.consume has refused and less than one second has passed
\* between taking `start` and the end of the wait, the loop sleeps 1/rate
\* seconds before it pulls the next operation, and after such a sleep the
\* next limiter.consume finds a token.
C16_SleepGuaranteesToken ==
  [][ /\ (pc = "yield_any" /\ pc' \in {"pull", "sleep"} /\ elapsed < rate)
           => pc' = "sleep"
      /\ (pc = "consume" /\ pc' # "consume" /\ dozed)
           => (tokens >= rate /\ pc' = "pull") ]_vars

\* C13: limiter.consume(key, 1) returns true and takes exactly one token when
\* the bucket holds at least one, and otherwise returns false and leaves the
\* bucket as it is.  With capacity = 1 and rate = 1 the bucket starts with its
\* one token, a granted consume leaves none (a second one at the same instant
\* is refused), and one second later the token is there again.
C13_ConsumeContract ==
  [][ /\ (pc = "consume" /\ pc' # "consume") =>
           IF tokens >= rate
             THEN tokens' = tokens - rate /\ debited' /\ pc' = "pull"
             ELSE tokens' = tokens /\ ~debited' /\ pc' = "wait_any"
      /\ (capacity = 1 /\ rate = 1) =>
           /\ pc = "start" => tokens >= rate
           /\ (pc = "consume" /\ pc' = "pull") => tokens' < rate
           /\ Tick => tokens' >= rate ]_vars

\* capacity = 1, rate = 1: the first consume was granted, one was refused
\* (the loop has waited), and a later one has just been granted
C13_Witness ==
  /\ capacity = 1
  /\ rate = 1
  /\ pc = "pull"
  /\ debited
  /\ consumed = 2
  /\ batch > 0

\* C19: when limiter.consume has refused and nothing is in flight, the wait
\* returns at once with nothing done and nothing pending, no pair is yielded,
\* and the loop gets to pull the next operation; between the wait and the pull
\* there is at most the one sleep of line 128.
C19_EmptyWaitGoesOn ==
  /\ (pc = "wait_any" /\ futures = {}) ~> (pc = "pull")
  /\ [][ /\ (pc = "wait_any" /\ futures = {} /\ pc' # pc) =>
              (pc' = "yield_any" /\ done' = {} /\ pending' = {}
                 /\ yielded' = yielded)
         /\ (pc = "yield_any" /\ done = {} /\ pc' # pc) =>
              pc' \in {"sleep", "pull"}
         /\ (pc = "sleep" /\ pc' # pc) => pc' = "pull" ]_vars

\* nothing was ever submitted, a consume was refused, the wait has returned
\* and the loop is about to pull the next operation
C19_Witness ==
  /\ pc = "pull"
  /\ ~debited
  /\ batch > 0
  /\ \A i \in Indices : submits[i] = 0
  /\ pos > 0

\* C20: a pooled pair is yielded only in an iteration in which
\* limiter.consume returned false, or in the final drain; in an iteration in
\* which a token was available none is yielded.
C20_CollectsOnlyWhenRefused ==
  [][ (Len(yielded') > Len(yielded)
         /\ yielded'[Len(yielded')].kind = "pool") =>
        \/ pc = "yield_any" /\ ~debited
        \/ pc = "yield_all" ]_vars

\* the third operation is being admitted with a token while the first task,
\* admitted two iterations before, has completed and is still uncollected
C20_Witness ==
  /\ pc = "submit"
  /\ debited
  /\ pos = 3
  /\ {1, 2} \subseteq futures
  /\ Finished(1)
  /\ collected = {}
  /\ PooledYields = {}

====
